---- MODULE Spec2Model ----
(***************************************************************************)
(* Model of src/MRP.py: a Streamlit script that is executed top to bottom  *)
(* on every user interaction (a "run").  State that survives a run: the    *)
(* users table (users.db), the vaccination_data table (vaccination_data.db)*)
(* and st.session_state.  State of one run: the position in the script     *)
(* (pc), the widget values of the run, and the script's variables (run).   *)
(* The environment: the Google sheet behind DATASET_URL, the Synthea xlsx  *)
(* file and the real-time csv file.                                        *)
(***************************************************************************)
EXTENDS Integers, Sequences, FiniteSets, TLC

\* ------------------------------------------------------------------ bounds
\* Longest VACCINATED/YEAR row collection of the Synthea xlsx file.
MaxRecords == 2
\* Number of distinct calendar years a row may carry.
NumYears == 2

Years == 2020 .. (2019 + NumYears)

\* ------------------------------------------------------- program constants
\* model_fit.forecast(steps=5)
Steps == 5
\* range(year_max + 1, year_max + 6)
RangeStop == 6

Usernames == {"alice", "bob"}
Passwords == {"pw1", "pw2"}

\* ----------------------------------------------------------------- helpers
SetMax(S) == CHOOSE m \in S : \A x \in S : x <= m
SetMin(S) == CHOOSE m \in S : \A x \in S : m <= x

RECURSIVE SortedSeq(_)
SortedSeq(S) == IF S = {} THEN <<>>
                ELSE <<SetMin(S)>> \o SortedSeq(S \ {SetMin(S)})

\* Python's range(a, b) as a list.
PyRange(a, b) == [i \in 1 .. (IF b > a THEN b - a ELSE 0) |-> a + i - 1]

\* Values of a sequence in order of first appearance, no repeats.
RECURSIVE FirstAppearance(_)
FirstAppearance(s) ==
    IF s = <<>> THEN <<>>
    ELSE LET rest == FirstAppearance(SelectSeq(Tail(s), LAMBDA x : x # Head(s)))
         IN  <<Head(s)>> \o rest

\* ------------------------------------------------- users.db (lines 39-129)
\* hash_password: sha256 hex digest; distinct passwords of the model have
\* distinct digests.
hash_password(password) == <<"sha256", password>>

\* user_exists: the first row with this username, truthy iff there is one.
user_exists(tbl, username) == \E r \in tbl : r.username = username

\* add_user: INSERT under the UNIQUE(username) constraint of the table;
\* IntegrityError is caught and reported as False, the table unchanged.
add_user(tbl, username, password) ==
    IF \E r \in tbl : r.username = username
    THEN [ok |-> FALSE, users |-> tbl]
    ELSE [ok |-> TRUE,
          users |-> tbl \cup {[id |-> Cardinality(tbl) + 1,
                               username |-> username,
                               password |-> hash_password(password)]}]

authenticate_user_any_password(tbl, username, password) ==
    \E r \in tbl : r.username = username

\* authenticate_user: the stored hash of the username equals the hash of the
\* entered password.
authenticate_user(tbl, username, password) ==
    \E r \in tbl : /\ r.username = username
                   /\ r.password = hash_password(password)

SignUpAccepted_no_confirm(tbl, new_username, new_password, confirm_password) ==
    ~user_exists(tbl, new_username)

\* signup_page, the if/elif chain before add_user is called.
SignUpAccepted(tbl, new_username, new_password, confirm_password) ==
    /\ new_password = confirm_password
    /\ ~user_exists(tbl, new_username)

\* ---------------------------------------- vaccination_data.db (lines 51-93)
SchemaColumns == {"id", "STATE", "CITY", "AGE_GROUP", "GENDER", "ETHNICITY",
                  "VACCINATED", "Year", "DESCRIPTION"}
SheetColumns == {"STATE", "CITY", "AGE_GROUP", "GENDER", "ETHNICITY",
                 "VACCINATED", "YEAR", "DESCRIPTION", "LAT", "LON"}

\* What DATASET_URL may serve: the sheet can change between runs.
SheetA == << [STATE |-> "CA", CITY |-> "LA", DESCRIPTION |-> "flu",
              VACCINATED |-> 1, YEAR |-> 2020],
             [STATE |-> "CA", CITY |-> "SF", DESCRIPTION |-> "covid",
              VACCINATED |-> 1, YEAR |-> 2021],
             [STATE |-> "TX", CITY |-> "Austin", DESCRIPTION |-> "flu",
              VACCINATED |-> 0, YEAR |-> 2020] >>
SheetB == << [STATE |-> "TX", CITY |-> "Austin", DESCRIPTION |-> "covid",
              VACCINATED |-> 1, YEAR |-> 2021] >>
Sheets == {SheetA, SheetB, <<>>}

NoTable == [exists |-> FALSE, columns |-> {}, rows |-> <<>>]

\* setup_vaccination_database: CREATE TABLE IF NOT EXISTS.
setup_vaccination_database(t) ==
    IF t.exists THEN t
    ELSE [exists |-> TRUE, columns |-> SchemaColumns, rows |-> <<>>]

is_data_present_never(t) == FALSE

\* is_data_present: SELECT COUNT(*) > 0.
is_data_present(t) == Len(t.rows) > 0

\* Outcomes of the try block of load_data_into_db.  read_csv raises: nothing
\* was written.  to_sql(if_exists="replace") raises while inserting: the
\* table was dropped and created from the sheet's columns, the inserts are
\* rolled back.  Otherwise the table holds the whole sheet.
LoadOutcomes == {[kind |-> "read_csv_error", sheet |-> <<>>],
                 [kind |-> "to_sql_error", sheet |-> <<>>]}
                \cup {[kind |-> "loaded", sheet |-> s] : s \in Sheets}

load_data_into_db(t, outcome) ==
    IF is_data_present(t) THEN t
    ELSE CASE outcome.kind = "read_csv_error" -> t
           [] outcome.kind = "to_sql_error" ->
                [exists |-> TRUE, columns |-> SheetColumns, rows |-> <<>>]
           [] OTHER ->
                [exists |-> TRUE, columns |-> SheetColumns, rows |-> outcome.sheet]

\* ------------------------------------ Synthea xlsx file (lines 399-410)
\* A VACCINATED cell as read_excel delivers it: a Python bool (True/False)
\* or an integer 0/1.  <<kind, n>>; n = 1 is the truthy value (True == 1).
Cells == {<<"bool", 1>>, <<"bool", 0>>, <<"int", 1>>, <<"int", 0>>}
ExcelRows == [YEAR : Years, VACCINATED : Cells]
RowSeqs == UNION {[1 .. n -> ExcelRows] : n \in 0 .. MaxRecords}

\* astype(str)
PyStr(c) == IF c[1] = "bool" THEN (IF c[2] = 1 THEN "True" ELSE "False")
            ELSE (IF c[2] = 1 THEN "1" ELSE "0")
\* .str.lower() on the strings astype(str) can deliver here
StrLower(s) == CASE s = "True" -> "true"
                 [] s = "False" -> "false"
                 [] OTHER -> s
NaN == [isnan |-> TRUE, v |-> 0]
Num(n) == [isnan |-> FALSE, v |-> n]
\* .map({"true": 1, "false": 0}): a key not in the mapping gives NaN
MapFlag(s) == CASE s = "true" -> Num(1)
                [] s = "false" -> Num(0)
                [] OTHER -> NaN

\* line 406: the VACCINATED column after the clean-and-convert step
NormaliseVaccinated(rows) ==
    [i \in DOMAIN rows |->
        [YEAR |-> rows[i].YEAR,
         VACCINATED |-> MapFlag(StrLower(PyStr(rows[i].VACCINATED)))]]

\* line 407: full_df[full_df["VACCINATED"] == 1]  (NaN == 1 is False)
vaccinated_full(full_df) ==
    SelectSeq(full_df, LAMBDA r : ~r.VACCINATED.isnan /\ r.VACCINATED.v = 1)

GroupKeys_unsorted(rows) ==
    FirstAppearance([i \in DOMAIN rows |-> rows[i].YEAR])

\* groupby("YEAR") with the default sort=True: the group keys ascending
GroupKeys(rows) == SortedSeq({rows[i].YEAR : i \in DOMAIN rows})

\* line 410: groupby("YEAR").size().reset_index(name="vaccinated_count")
GroupBySize(rows) ==
    LET ks == GroupKeys(rows)
    IN  [k \in DOMAIN ks |->
            [YEAR |-> ks[k],
             vaccinated_count |->
                Cardinality({i \in DOMAIN rows : rows[i].YEAR = ks[k]})]]

\* lines 406-410
YearlyVax(rows) == GroupBySize(vaccinated_full(NormaliseVaccinated(rows)))

\* ------------------------------------------- forecast (lines 412-435)
\* The point forecasts of the fitted model are real numbers the model does
\* not compute; one of these levels stands for each.
PredictedLevels == {"low", "high"}

\* ARIMA(...).fit() on the count column.  An empty column cannot be fitted
\* (and int(NaN) at line 417 raises were the fit to return); any other
\* column either fits or makes the estimation raise.
FitOutcomes(series) == IF series = <<>> THEN {"raise"} ELSE {"ok", "raise"}

FutureYears_off_by_one(year_max) == PyRange(year_max, year_max + RangeStop - 1)

\* line 418
FutureYears(year_max) == PyRange(year_max + 1, year_max + RangeStop)

\* lines 422-425: a frame from a list and a series; unequal lengths raise.
ForecastFrame(future_years, forecast) ==
    IF Len(future_years) # Len(forecast) THEN [raised |-> TRUE, rows |-> <<>>]
    ELSE [raised |-> FALSE,
          rows |-> [i \in DOMAIN forecast |->
                      [YEAR |-> future_years[i],
                       vaccinated_count |-> forecast[i]]]]

ForecastInput_filtered(file_rows, filtered_df) ==
    [i \in DOMAIN filtered_df |->
        [YEAR |-> filtered_df[i].YEAR,
         VACCINATED |-> <<"bool", filtered_df[i].VACCINATED>>]]

\* line 403: the frame the series is built from is the whole xlsx sheet
\* (columns YEAR and VACCINATED); filtered_df is not used.
ForecastInput(file_rows, filtered_df) == file_rows

\* lines 403-428 as one computation: the frames built and where an
\* exception, if any, was raised.
ForecastCompute(file_rows, filtered_df, fit, level) ==
    LET yv == YearlyVax(ForecastInput(file_rows, filtered_df))
        none == [yearly_vax |-> yv, forecast_df |-> <<>>, combined_df |-> <<>>]
    IN  IF fit = "raise"
        THEN none @@ [status |-> "exception", raised_at |-> "ARIMA"]
        ELSE LET year_max == SetMax({yv[i].YEAR : i \in DOMAIN yv})
                 forecast == [i \in 1 .. Steps |-> level]
                 fr == ForecastFrame(FutureYears(year_max), forecast)
             IN  IF fr.raised
                 THEN none @@ [status |-> "exception", raised_at |-> "DataFrame"]
                 ELSE [yearly_vax |-> yv, forecast_df |-> fr.rows,
                       combined_df |-> yv \o fr.rows,
                       status |-> "ok", raised_at |-> "none"]

ForecastShown_on_failure(result) ==
    IF result.status = "ok" THEN result.combined_df ELSE result.yearly_vax

\* lines 431-435: the chart and the table are rendered from combined_df, and
\* only when control reaches them.
ForecastShown(result) ==
    IF result.status = "ok" THEN result.combined_df ELSE <<>>

\* ------------------------------------------------------------------ state
VARIABLES
    users,            \* rows of the users table
    vaccination_data, \* the vaccination_data table: exists, columns, rows
    session,          \* st.session_state: a function on the keys set so far
    page,             \* what the last finished run rendered (its buttons)
    pc,               \* position of the running script, "idle" between runs
    click,            \* the button whose click started this run, or "none"
    inputs,           \* the text inputs of the page the click was made on
    rerun_from,       \* what started this run: the user or an st.rerun()
    load_attempted,   \* load_data_into_db entered its try block in this run
    run,              \* the script's variables and what it rendered
    full_file,        \* the file at SYNTHETIC_DATA_PATH
    realtime_file     \* the file at REALTIME_DATASET_PATH

vars == <<users, vaccination_data, session, page, pc, click, inputs,
          rerun_from, load_attempted, run, full_file, realtime_file>>

NoInputs == [username |-> "", password |-> "", confirm |-> ""]

\* The variables of a run before its first statement.
FreshRun ==
    [status |-> "running", executed |-> {}, warnings |-> {},
     df |-> <<>>, state |-> "None", city |-> "None", vaccine |-> {},
     filtered_df |-> <<>>, total_vaccinated |-> 0,
     yearly_vax |-> <<>>, forecast_df |-> <<>>, forecast_status |-> "not_run",
     raised_at |-> "none", forecast_chart |-> <<>>, forecast_table |-> <<>>,
     real_total_vaccinated |-> 0]

Authenticated(s) == "authenticated" \in DOMAIN s /\ s["authenticated"]
SignupFlag(s) == "signup" \in DOMAIN s /\ s["signup"]

\* session_state[key] = value
SetKey(s, key, value) == (key :> value) @@ s

\* The files the environment may hold.
MissingFile == [exists |-> FALSE, rows |-> <<>>]
SyntheaFiles == {MissingFile} \cup {[exists |-> TRUE, rows |-> r] : r \in RowSeqs}
SampleSyntheaFiles ==
    {MissingFile,
     [exists |-> TRUE, rows |-> << [YEAR |-> 2020, VACCINATED |-> <<"bool", 1>>],
                                   [YEAR |-> 2021, VACCINATED |-> <<"bool", 1>>] >>],
     [exists |-> TRUE, rows |-> << [YEAR |-> 2020, VACCINATED |-> <<"bool", 0>>] >>]}
RealtimeFiles ==
    {[exists |-> FALSE, fully_vaccinated |-> 0, partially_vaccinated |-> 0],
     [exists |-> TRUE, fully_vaccinated |-> 2, partially_vaccinated |-> 1]}

\* A browser session opened on a machine where neither database file exists.
Init ==
    /\ users = {}
    /\ vaccination_data = NoTable
    /\ session = <<>>
    /\ page = "none"
    /\ pc = "idle"
    /\ click = "none"
    /\ inputs = NoInputs
    /\ rerun_from = "none"
    /\ load_attempted = FALSE
    /\ run = [FreshRun EXCEPT !.status = "none"]
    /\ full_file \in SampleSyntheaFiles
    /\ realtime_file \in RealtimeFiles

\* ------------------------------------------------------------ run control
\* A run begins: the script's variables are fresh, the widget values are
\* those of the interaction.
StartRun(c, in, from) ==
    /\ pc' = "setup"
    /\ click' = c
    /\ inputs' = in
    /\ rerun_from' = from
    /\ load_attempted' = FALSE
    /\ run' = FreshRun

\* st.rerun(): the run ends at once and the script starts over; the button
\* that was clicked no longer reads as clicked.
Rerun(from) == StartRun("none", NoInputs, from) /\ UNCHANGED page

\* st.stop(), or the end of the script: the run is over.
EndRun(status, rendered, r) ==
    /\ pc' = "idle"
    /\ page' = rendered
    /\ run' = [r EXCEPT !.status = status]
    /\ UNCHANGED <<click, inputs, rerun_from, load_attempted>>

\* An uncaught exception: Streamlit shows it and the rest of the script is
\* not executed.  The dashboard's widgets above the failing line stay.
Abort(r) == EndRun("exception", "dashboard", r)

\* --------------------------------------------------------- the user's moves
\* A new browser session: session_state starts empty.
OpenApp ==
    /\ pc = "idle"
    /\ session' = <<>>
    /\ StartRun("none", NoInputs, "user")
    /\ UNCHANGED <<users, vaccination_data, page, full_file, realtime_file>>

ClickLogin ==
    /\ pc = "idle" /\ page = "login"
    /\ \E u \in Usernames, p \in Passwords :
          StartRun("Login", [username |-> u, password |-> p, confirm |-> ""], "user")
    /\ UNCHANGED <<users, vaccination_data, session, page, full_file, realtime_file>>

\* The "Sign Up" button of the login page.
ClickSignUpLink ==
    /\ pc = "idle" /\ page = "login"
    /\ StartRun("Sign Up@login", NoInputs, "user")
    /\ UNCHANGED <<users, vaccination_data, session, page, full_file, realtime_file>>

\* The "Sign Up" button of the signup page.
ClickSignUp ==
    /\ pc = "idle" /\ page = "signup"
    /\ \E u \in Usernames, p \in Passwords, c \in Passwords :
          StartRun("Sign Up@signup",
                   [username |-> u, password |-> p, confirm |-> c], "user")
    /\ UNCHANGED <<users, vaccination_data, session, page, full_file, realtime_file>>

ClickGoToLogin ==
    /\ pc = "idle" /\ page = "signup"
    /\ StartRun("Go to Login", NoInputs, "user")
    /\ UNCHANGED <<users, vaccination_data, session, page, full_file, realtime_file>>

ClickLogout ==
    /\ pc = "idle" /\ page = "dashboard"
    /\ StartRun("Logout", NoInputs, "user")
    /\ UNCHANGED <<users, vaccination_data, session, page, full_file, realtime_file>>

\* A sidebar filter is changed: a run without a button click.
ChangeFilter ==
    /\ pc = "idle" /\ page = "dashboard"
    /\ StartRun("none", NoInputs, "user")
    /\ UNCHANGED <<users, vaccination_data, session, page, full_file, realtime_file>>

\* ------------------------------------------------------ the script's steps
\* setup_user_database: CREATE TABLE IF NOT EXISTS users.
setup_user_database(tbl) == tbl

\* Lines 28-93: the databases are set up and the dataset is loaded.
Startup ==
    /\ pc = "setup"
    /\ \E outcome \in LoadOutcomes :
          LET t == setup_vaccination_database(vaccination_data)
          IN  /\ vaccination_data' = load_data_into_db(t, outcome)
              /\ load_attempted' = ~is_data_present(t)
    /\ users' = setup_user_database(users)
    /\ pc' = "gate"
    /\ UNCHANGED <<session, page, click, inputs, rerun_from, run,
                   full_file, realtime_file>>

\* Lines 175-185: the session keys get their defaults and the script goes
\* to the signup page, the login page or the dashboard.
AuthGate ==
    /\ pc = "gate"
    /\ LET s1 == IF "authenticated" \in DOMAIN session THEN session
                 ELSE SetKey(session, "authenticated", FALSE)
           s2 == IF "signup" \in DOMAIN s1 THEN s1
                 ELSE SetKey(s1, "signup", FALSE)
       IN  /\ session' = s2
           /\ pc' = IF ~s2["authenticated"]
                    THEN (IF s2["signup"] THEN "signup_page" ELSE "login_page")
                    ELSE "dashboard"
    /\ UNCHANGED <<users, vaccination_data, page, click, inputs, rerun_from,
                   load_attempted, run, full_file, realtime_file>>

\* login_page() and the st.stop() after it.
login_page ==
    /\ pc = "login_page"
    /\ IF click = "Login"
       THEN IF authenticate_user(users, inputs.username, inputs.password)
            THEN /\ session' = SetKey(SetKey(session, "authenticated", TRUE),
                                      "username", inputs.username)
                 /\ Rerun("login")
            ELSE /\ EndRun("stopped", "login",
                           [run EXCEPT !.warnings = @ \cup {"invalid_credentials"}])
                 /\ UNCHANGED session
       ELSE IF click = "Sign Up@login"
            THEN /\ session' = SetKey(session, "signup", TRUE)
                 /\ Rerun("signup_link")
            ELSE /\ EndRun("stopped", "login", run)
                 /\ UNCHANGED session
    /\ UNCHANGED <<users, vaccination_data, full_file, realtime_file>>

\* signup_page() and the st.stop() after it.
signup_page ==
    /\ pc = "signup_page"
    /\ IF click = "Sign Up@signup"
       THEN IF SignUpAccepted(users, inputs.username, inputs.password, inputs.confirm)
            THEN LET res == add_user(users, inputs.username, inputs.password)
                 IN  IF res.ok
                     THEN /\ users' = res.users
                          /\ session' = SetKey(session, "signup", FALSE)
                          /\ Rerun("signup_done")
                     ELSE /\ EndRun("stopped", "signup",
                                    [run EXCEPT !.warnings = @ \cup {"something_wrong"}])
                          /\ UNCHANGED <<users, session>>
            ELSE /\ EndRun("stopped", "signup",
                           [run EXCEPT !.warnings = @ \cup {"signup_rejected"}])
                 /\ UNCHANGED <<users, session>>
       ELSE IF click = "Go to Login"
            THEN /\ session' = SetKey(session, "signup", FALSE)
                 /\ Rerun("go_to_login")
                 /\ UNCHANGED users
            ELSE /\ EndRun("stopped", "signup", run)
                 /\ UNCHANGED <<users, session>>
    /\ UNCHANGED <<vaccination_data, full_file, realtime_file>>

\* selectbox/multiselect options: the column's unique values; a selectbox
\* without options returns None.
Unique(rows, col) == {rows[i][col] : i \in DOMAIN rows}
SelectboxChoices(options) == IF options = {} THEN {"None"} ELSE options

\* line 209
FilterRows(df, state, city, vaccine) ==
    SelectSeq(df, LAMBDA r : /\ r.STATE = state
                             /\ r.CITY = city
                             /\ r.DESCRIPTION \in vaccine)

\* lines 244 and 371: filtered_df[filtered_df["VACCINATED"] == 1].shape[0]
TotalVaccinated(filtered_df) ==
    Len(SelectSeq(filtered_df, LAMBDA r : r.VACCINATED = 1))

\* Lines 188-198: the Logout button, then the table is read into df.
dashboard_head ==
    /\ pc = "dashboard"
    /\ IF click = "Logout"
       THEN /\ session' = SetKey(session, "authenticated", FALSE)
            /\ Rerun("logout")
       ELSE /\ run' = [run EXCEPT !.df = vaccination_data.rows,
                                  !.executed = @ \cup {"dashboard"}]
            /\ pc' = "filters"
            /\ UNCHANGED <<session, page, click, inputs, rerun_from, load_attempted>>
    /\ UNCHANGED <<users, vaccination_data, full_file, realtime_file>>

\* Lines 205-211: the sidebar filters and filtered_df.
filters ==
    /\ pc = "filters"
    /\ \E state \in SelectboxChoices(Unique(run.df, "STATE")) :
       \E city \in SelectboxChoices(
                     Unique(SelectSeq(run.df, LAMBDA r : r.STATE = state), "CITY")) :
       \E vaccine \in SUBSET Unique(run.df, "DESCRIPTION") :
          run' = [run EXCEPT !.state = state, !.city = city, !.vaccine = vaccine,
                             !.filtered_df = FilterRows(run.df, state, city, vaccine),
                             !.executed = @ \cup {"filters"}]
    /\ pc' = "descriptive"
    /\ UNCHANGED <<users, vaccination_data, session, page, click, inputs,
                   rerun_from, load_attempted, full_file, realtime_file>>

\* Lines 229-386: the map, the totals, the charts and the summary tables.
\* filtered_df[["LAT", "LON"]] raises KeyError when the table was created by
\* setup_vaccination_database and never replaced by the sheet.
descriptive ==
    /\ pc = "descriptive"
    /\ IF ~({"LAT", "LON"} \subseteq vaccination_data.columns)
       THEN Abort([run EXCEPT !.raised_at = "map"])
       ELSE /\ run' = [run EXCEPT
                          !.total_vaccinated = TotalVaccinated(run.filtered_df),
                          !.executed = @ \cup {"descriptive"}]
            /\ pc' = "forecast"
            /\ UNCHANGED <<page, click, inputs, rerun_from, load_attempted>>
    /\ UNCHANGED <<users, vaccination_data, session, full_file, realtime_file>>

\* Lines 391-438: the forecast section.  No statement of it is inside a
\* try block: an exception of the fit ends the run.
forecast_section ==
    /\ pc = "forecast"
    /\ IF full_file.exists
       THEN \E fit \in FitOutcomes(
                         YearlyVax(ForecastInput(full_file.rows, run.filtered_df))),
               level \in PredictedLevels :
               LET res == ForecastCompute(full_file.rows, run.filtered_df, fit, level)
                   r == [run EXCEPT !.yearly_vax = res.yearly_vax,
                                    !.forecast_df = res.forecast_df,
                                    !.forecast_status = res.status,
                                    !.raised_at = res.raised_at,
                                    !.forecast_chart = ForecastShown(res),
                                    !.forecast_table = ForecastShown(res),
                                    !.executed = @ \cup {"forecast"}]
               IN  IF res.status = "ok"
                   THEN /\ run' = r
                        /\ pc' = "realtime"
                        /\ UNCHANGED <<page, click, inputs, rerun_from, load_attempted>>
                   ELSE Abort(r)
       ELSE /\ run' = [run EXCEPT !.warnings = @ \cup {"synthea_missing"},
                                  !.forecast_status = "skipped",
                                  !.executed = @ \cup {"forecast"}]
            /\ pc' = "realtime"
            /\ UNCHANGED <<page, click, inputs, rerun_from, load_attempted>>
    /\ UNCHANGED <<users, vaccination_data, session, full_file, realtime_file>>

\* Lines 446-459: the real-time dataset.
realtime_section ==
    /\ pc = "realtime"
    /\ run' = IF realtime_file.exists
              THEN [run EXCEPT !.real_total_vaccinated =
                                   realtime_file.fully_vaccinated
                                   + realtime_file.partially_vaccinated,
                               !.executed = @ \cup {"realtime"}]
              ELSE [run EXCEPT !.real_total_vaccinated = 0,
                               !.warnings = @ \cup {"realtime_missing"},
                               !.executed = @ \cup {"realtime"}]
    /\ pc' = "comparison"
    /\ UNCHANGED <<users, vaccination_data, session, page, click, inputs,
                   rerun_from, load_attempted, full_file, realtime_file>>

\* Lines 462-484: the comparison metrics and chart; the script ends.
comparison_section ==
    /\ pc = "comparison"
    /\ EndRun("finished", "dashboard",
              [run EXCEPT !.executed = @ \cup {"comparison"}])
    /\ UNCHANGED <<users, vaccination_data, session, full_file, realtime_file>>

DashboardSteps ==
    \/ dashboard_head
    \/ filters
    \/ descriptive
    \/ forecast_section
    \/ realtime_section
    \/ comparison_section

Next ==
    \/ OpenApp
    \/ ClickLogin
    \/ ClickSignUpLink
    \/ ClickSignUp
    \/ ClickGoToLogin
    \/ ClickLogout
    \/ ChangeFilter
    \/ Startup
    \/ AuthGate
    \/ login_page
    \/ signup_page
    \/ DashboardSteps

\* The application from a fresh installation.
Spec == Init /\ [][Next]_vars

\* The dashboard of a logged-in session with the dataset loaded: the state
\* right after a successful login requested its rerun, for every content of
\* the Synthea file within the bounds.
InitForecast ==
    /\ users = {[id |-> 1, username |-> "alice",
                 password |-> hash_password("pw1")]}
    /\ vaccination_data = [exists |-> TRUE, columns |-> SheetColumns, rows |-> SheetA]
    /\ session = SetKey(SetKey(SetKey(<<>>, "signup", FALSE),
                               "authenticated", TRUE), "username", "alice")
    /\ page = "login"
    /\ pc = "setup"
    /\ click = "none"
    /\ inputs = NoInputs
    /\ rerun_from = "login"
    /\ load_attempted = FALSE
    /\ run = FreshRun
    /\ full_file \in SyntheaFiles
    /\ realtime_file \in RealtimeFiles

NextForecast ==
    \/ ChangeFilter
    \/ Startup
    \/ AuthGate
    \/ DashboardSteps

SpecForecast == InitForecast /\ [][NextForecast]_vars

TypeOK ==
    /\ pc \in {"idle", "setup", "gate", "login_page", "signup_page", "dashboard",
               "filters", "descriptive", "forecast", "realtime", "comparison"}
    /\ page \in {"none", "login", "signup", "dashboard"}
    /\ \A r \in users : r.username \in Usernames
    /\ DOMAIN session \subseteq {"authenticated", "signup", "username"}

\* ------------------------------------------------------------- properties
ForecastRan == "forecast" \in run.executed /\ full_file.exists
DashboardPcs == {"dashboard", "filters", "descriptive", "forecast",
                 "realtime", "comparison"}
HistoricalYears == {run.yearly_vax[i].YEAR : i \in DOMAIN run.yearly_vax}
\* Rows of the xlsx sheet with this year whose flag is true (True, or 1).
ManualCount(y) ==
    Cardinality({i \in DOMAIN full_file.rows :
                    /\ full_file.rows[i].YEAR = y
                    /\ full_file.rows[i].VACCINATED[2] = 1})
\* Rows of the xlsx sheet with this year whose flag is the boolean True.
BooleanTrueCount(y) ==
    Cardinality({i \in DOMAIN full_file.rows :
                    /\ full_file.rows[i].YEAR = y
                    /\ full_file.rows[i].VACCINATED = <<"bool", 1>>})
\* The count the series reports for a year, 0 when the year is absent.
SeriesCount(series, y) ==
    IF \E i \in DOMAIN series : series[i].YEAR = y
    THEN (CHOOSE r \in {series[i] : i \in DOMAIN series} : r.YEAR = y).vaccinated_count
    ELSE 0
StrictlyIncreasingYears(series) ==
    \A i, j \in DOMAIN series : i < j => series[i].YEAR < series[j].YEAR

\* C1: whenever the forecast step produces a result, the result has exactly
\* H = 5 entries, their years are last_year+1 .. last_year+H in order, where
\* last_year is the largest year of the series, and every forecast year is
\* greater than every historical year.
C1_ForecastYears ==
    run.forecast_status = "ok" =>
        /\ run.yearly_vax # <<>>
        /\ Len(run.forecast_df) = Steps
        /\ \A i \in 1 .. Steps :
              run.forecast_df[i].YEAR = SetMax(HistoricalYears) + i
        /\ \A i \in DOMAIN run.forecast_df : \A h \in HistoricalYears :
              run.forecast_df[i].YEAR > h

C1_Witness ==
    /\ run.forecast_status = "ok"
    /\ Len(run.yearly_vax) = 2
    /\ Len(run.forecast_df) = Steps

\* C2: an empty yearly series makes the forecast step end in the
\* InsufficientDataError outcome, with no forecast chart or table.
C2_EmptySeriesInsufficientData ==
    (ForecastRan /\ run.yearly_vax = <<>>) =>
        /\ run.forecast_status = "InsufficientDataError"
        /\ run.forecast_chart = <<>>
        /\ run.forecast_table = <<>>

\* C3: a failure of the forecast step does not abort the run: a warning is
\* shown and the real-time and comparison sections are executed.
C3_ForecastFailureDoesNotAbort ==
    (pc = "idle" /\ run.forecast_status = "exception") =>
        /\ run.status = "finished"
        /\ run.warnings # {}
        /\ {"realtime", "comparison"} \subseteq run.executed

\* C4: what is shown of the forecast is all or nothing: each of the chart
\* and the table is either not rendered, or holds the history followed by
\* exactly H = 5 forecast rows of a fit that succeeded.
C4_AllOrNothing ==
    \A shown \in {run.forecast_chart, run.forecast_table} :
        \/ shown = <<>>
        \/ /\ run.forecast_status = "ok"
           /\ Len(shown) - Len(run.yearly_vax) = Steps
           /\ shown = run.yearly_vax \o run.forecast_df
           /\ Len(run.forecast_df) = Steps

C4_Witness ==
    /\ pc = "idle"
    /\ run.status = "finished"
    /\ Len(run.forecast_table) = Len(run.yearly_vax) + Steps
    /\ Len(run.forecast_chart) = Len(run.yearly_vax) + Steps

\* C5: the count the series reports for a year equals the number of input
\* records of that year whose vaccinated flag is true (0/1 encoded).
C5_CountsEqualManualCount ==
    ForecastRan => \A y \in Years : SeriesCount(run.yearly_vax, y) = ManualCount(y)

C7_SeriesSorted ==
    ForecastRan =>
        /\ StrictlyIncreasingYears(run.yearly_vax)
        /\ \A i \in DOMAIN run.yearly_vax : run.yearly_vax[i].vaccinated_count \in Nat
        /\ (\A y \in Years : ManualCount(y) = 0) =>
              (run.yearly_vax = <<>> /\ run.raised_at = "ARIMA")

C7_Witness ==
    /\ ForecastRan
    /\ Len(run.yearly_vax) = 2
    /\ Len(full_file.rows) = 2
    /\ full_file.rows[1].YEAR > full_file.rows[2].YEAR

\* C8: the dataset is ingested only into an empty table: a table that holds
\* rows is never changed; a run that finds the table empty attempts the
\* load, a run that finds rows does not; after an attempt the table is
\* empty or holds one whole sheet.
C8_LoadOnlyWhenEmpty ==
    [][ /\ Len(vaccination_data.rows) > 0 => vaccination_data' = vaccination_data
        /\ vaccination_data'.rows # vaccination_data.rows =>
              /\ pc = "setup"
              /\ vaccination_data.rows = <<>>
              /\ vaccination_data'.rows \in Sheets
        /\ pc = "setup" => (load_attempted' <=> vaccination_data.rows = <<>>)
      ]_vars

C8_Witness ==
    /\ pc = "gate"
    /\ Len(vaccination_data.rows) > 0
    /\ ~load_attempted

\* C9: the dashboard part runs only with 'authenticated' true; the flag
\* becomes true only by a Login click whose username has a stored hash equal
\* to the hash of the entered password; the run after a Logout click shows
\* the login page and not the dashboard.
C9_DashboardOnlyWhenAuthenticated ==
    /\ [](pc \in DashboardPcs => Authenticated(session))
    /\ [](run.executed # {} => Authenticated(session))
    /\ [](rerun_from = "logout" =>
            /\ pc \notin DashboardPcs
            /\ run.executed = {}
            /\ pc = "idle" => page = "login")
    /\ [][ (~Authenticated(session) /\ Authenticated(session')) =>
              /\ pc = "login_page"
              /\ click = "Login"
              /\ \E r \in users : /\ r.username = inputs.username
                                  /\ r.password = hash_password(inputs.password)
         ]_vars

C9_Witness ==
    /\ rerun_from = "logout"
    /\ pc = "idle"
    /\ page = "login"

\* C10: the users table holds at most one row per username and no row is
\* ever changed or removed; a Sign Up click with mismatched passwords or a
\* taken username leaves the table unchanged and 'signup' true; a Sign Up
\* click sets 'signup' to false only when it inserts a new row.
C10_SignupKeepsUsers ==
    /\ [](\A r1, r2 \in users : r1.username = r2.username => r1 = r2)
    /\ [][ /\ users \subseteq users'
           /\ ( /\ pc = "signup_page"
                /\ click = "Sign Up@signup"
                /\ \/ inputs.password # inputs.confirm
                   \/ \E r \in users : r.username = inputs.username )
              => (users' = users /\ SignupFlag(session'))
           /\ (pc = "signup_page" /\ click = "Sign Up@signup" /\ ~SignupFlag(session'))
              => /\ Cardinality(users') = Cardinality(users) + 1
                 /\ \E r \in users' \ users :
                       /\ r.username = inputs.username
                       /\ r.password = hash_password(inputs.password)
         ]_vars

C10_Witness ==
    /\ pc = "idle"
    /\ page = "signup"
    /\ "signup_rejected" \in run.warnings
    /\ Cardinality(users) = 2

====
